---- MODULE Spec2Model ----
(***************************************************************************)
(* A model of src/src/cbor.rs: the CBOR value type, the header and         *)
(* additional-value codecs, the depth-guarded encoder and decoder and the  *)
(* Key conversions.                                                        *)
(*                                                                         *)
(* Representation.                                                         *)
(*   u8            a number in 0..255                                      *)
(*   u64           its eight big-endian bytes (TLC's integers are 32 bit)  *)
(*   i64           [neg, mag]: sign and magnitude, mag a u64               *)
(*   f32, f64      their 4 / 8 big-endian IEEE bytes                       *)
(*   Vec<u8>       a sequence of u8                                        *)
(*   Result<T>     a record with tag "Ok" or "Err"; a panic (Rust unwinds  *)
(*                 the thread) is the third tag "Panic"                    *)
(*   R: io::Read   a byte slice and a cursor: read() copies what is left,  *)
(*                 up to the length asked for, and returns Ok             *)
(***************************************************************************)
EXTENDS Integers, Sequences, FiniteSets, TLC

\* ------------------------------------------------------------------ bounds

\* The longest source the model enumerates byte by byte.
MaxSrcLen == 3
\* The most elements a decoder loop accumulates before the model stops following it.
MaxItems == 6
\* The longest byte buffer the model lets the decoder allocate.
MaxAlloc == 8
\* The calls one reader makes on its source.
MaxReads == 2

\* --------------------------------------------------------------- constants

RECURSION_LIMIT == 1000

\* ------------------------------------------------------------ u8 and u64

Byte == 0..255

Min(a, b) == IF a < b THEN a ELSE b

\* a | b on u8, bit by bit.
RECURSIVE BitOr(_, _, _)
BitOr(a, b, bits) ==
    IF bits = 0 THEN 0
    ELSE (IF a % 2 = 1 \/ b % 2 = 1 THEN 1 ELSE 0)
         + 2 * BitOr(a \div 2, b \div 2, bits - 1)

\* n as u64, for n below 2^31.
U64Of(n) ==
    <<0, 0, 0, 0, (n \div 16777216) % 256, (n \div 65536) % 256,
      (n \div 256) % 256, n % 256>>

Zero8 == <<0, 0, 0, 0, 0, 0, 0, 0>>

U8_MAX == <<0, 0, 0, 0, 0, 0, 0, 255>>
U16_MAX == <<0, 0, 0, 0, 0, 0, 255, 255>>
U32_MAX == <<0, 0, 0, 0, 255, 255, 255, 255>>
I64_MAX == <<127, 255, 255, 255, 255, 255, 255, 255>>
U64_MAX == <<255, 255, 255, 255, 255, 255, 255, 255>>

LtU64(a, b) ==
    \E i \in 1..8 : a[i] < b[i] /\ \A j \in 1..(i - 1) : a[j] = b[j]

LeU64(a, b) == a = b \/ LtU64(a, b)

\* a u64 that fits TLC's integers, as a number.
FitsNat(a) == a[1] = 0 /\ a[2] = 0 /\ a[3] = 0 /\ a[4] = 0 /\ a[5] < 128

U64ToNat(a) == a[5] * 16777216 + a[6] * 65536 + a[7] * 256 + a[8]

\* a + 1 on u64 bytes, wrapping at 2^64.
U64Add1(a) ==
    LET low == {i \in 1..8 : a[i] # 255}
    IN  IF low = {} THEN Zero8
        ELSE LET k == CHOOSE i \in low : \A j \in low : j <= i
             IN  [i \in 1..8 |-> IF i < k THEN a[i]
                                 ELSE IF i = k THEN a[i] + 1 ELSE 0]

\* a - 1 on u64 bytes, wrapping at 0.
U64Sub1(a) ==
    LET low == {i \in 1..8 : a[i] # 0}
    IN  IF low = {} THEN U64_MAX
        ELSE LET k == CHOOSE i \in low : \A j \in low : j <= i
             IN  [i \in 1..8 |-> IF i < k THEN a[i]
                                 ELSE IF i = k THEN a[i] - 1 ELSE 255]

\* ----------------------------------------------------------------- Info

Tiny(v) == [k |-> "Tiny", v |-> v]
Wide(k) == [k |-> k, v |-> 0]

InfoU8 == Wide("U8")
InfoU16 == Wide("U16")
InfoU32 == Wide("U32")
InfoU64 == Wide("U64")
Reserved28 == Wide("Reserved28")
Reserved29 == Wide("Reserved29")
Reserved30 == Wide("Reserved30")
Indefinite == Wide("Indefinite")

\* impl TryFrom<u8> for Info
InfoTryFromU8(b) ==
    IF b <= 23 THEN [tag |-> "Ok", info |-> Tiny(b)]
    ELSE IF b = 24 THEN [tag |-> "Ok", info |-> InfoU8]
    ELSE IF b = 25 THEN [tag |-> "Ok", info |-> InfoU16]
    ELSE IF b = 26 THEN [tag |-> "Ok", info |-> InfoU32]
    ELSE IF b = 27 THEN [tag |-> "Ok", info |-> InfoU64]
    ELSE IF b = 28 THEN [tag |-> "Ok", info |-> Reserved28]
    ELSE IF b = 29 THEN [tag |-> "Ok", info |-> Reserved29]
    ELSE IF b = 30 THEN [tag |-> "Ok", info |-> Reserved30]
    ELSE IF b = 31 THEN [tag |-> "Ok", info |-> Indefinite]
    ELSE [tag |-> "Err", kind |-> "Fatal"]

\* impl From<u64> for Info
InfoFromU64(num) ==
    IF LeU64(num, U64Of(23)) THEN Tiny(num[8])
    ELSE IF LeU64(num, U8_MAX) THEN InfoU8
    ELSE IF LeU64(num, U16_MAX) THEN InfoU16
    ELSE IF LeU64(num, U32_MAX) THEN InfoU32
    ELSE InfoU64

\* impl TryFrom<usize> for Info; usize is 64 bits wide, a length fits TLC's integers.
InfoTryFromUsize(len) == InfoFromU64(U64Of(len))

\* ----------------------------------------------------- results of a write

EOk(n, buf) == [tag |-> "Ok", n |-> n, kind |-> "", buf |-> buf]
EErr(kind, buf) == [tag |-> "Err", n |-> 0, kind |-> kind, buf |-> buf]
EPanic(buf) == [tag |-> "Panic", n |-> 0, kind |-> "copy_from_slice", buf |-> buf]

\* <[u8]>::copy_from_slice(dst, src): panics unless the two lengths are equal,
\* and then overwrites dst with src.
CopyFromSlice(dst, src) ==
    IF Len(dst) = Len(src) THEN [tag |-> "Ok", buf |-> src]
    ELSE [tag |-> "Panic", buf |-> dst]

\* --------------------------------------------------------- header codec

InfoCode(info) ==
    IF info.k = "Tiny" THEN info.v
    ELSE IF info.k = "U8" THEN 24
    ELSE IF info.k = "U16" THEN 25
    ELSE IF info.k = "U32" THEN 26
    ELSE IF info.k = "U64" THEN 27
    ELSE IF info.k = "Reserved28" THEN 28
    ELSE IF info.k = "Reserved29" THEN 29
    ELSE IF info.k = "Reserved30" THEN 30
    ELSE 31

\* fn encode_hdr(major, info, buf)
encode_hdr(major, info, buf) ==
    IF info.k = "Tiny" /\ info.v > 23 THEN EErr("FailCbor", buf)
    ELSE EOk(1, Append(buf, BitOr((major * 32) % 256, InfoCode(info), 8)))

\* io::Read::read(&mut scratch[..k]) on a slice: the bytes left, up to k, are
\* copied to the front of the zeroed scratch; the cursor moves past them. The
\* caller drops the count read() returns; short records that it was below k.
ReadInto(src, at, k) ==
    [bytes |-> [i \in 1..k |-> IF at + i <= Len(src) THEN src[at + i] ELSE 0],
     pos |-> Min(at + k, Len(src)),
     short |-> at + k > Len(src)]

\* decode_hdr with the descriptor mask one bit short (b & 0x0f).
decode_hdr_mask(src, at) ==
    LET rd == ReadInto(src, at, 1)
        b == rd.bytes[1]
        major == (b - (b % 32)) \div 32
        info == InfoTryFromU8(b % 16)
    IN  IF info.tag = "Err"
        THEN [tag |-> "Err", kind |-> info.kind, pos |-> rd.pos, short |-> rd.short]
        ELSE [tag |-> "Ok", major |-> major, info |-> info.info, pos |-> rd.pos,
              short |-> rd.short]

\* fn decode_hdr(r)
decode_hdr(src, at) ==
    LET rd == ReadInto(src, at, 1)
        b == rd.bytes[1]
        major == (b - (b % 32)) \div 32
        info == InfoTryFromU8(b % 32)
    IN  IF info.tag = "Err"
        THEN [tag |-> "Err", kind |-> info.kind, pos |-> rd.pos, short |-> rd.short]
        ELSE [tag |-> "Ok", major |-> major, info |-> info.info, pos |-> rd.pos,
              short |-> rd.short]

\* ----------------------------------------------- additional-value codec

\* The bytes encode_addnl copies into its scratch: (n as uN).to_be_bytes().
AddnlBytes(num) ==
    IF LeU64(num, U64Of(23)) THEN <<>>
    ELSE IF LeU64(num, U8_MAX) THEN SubSeq(num, 8, 8)
    ELSE IF LeU64(num, U16_MAX) THEN SubSeq(num, 7, 8)
    ELSE IF LeU64(num, U32_MAX) THEN SubSeq(num, 5, 8)
    ELSE num

\* fn encode_addnl(num, buf)
encode_addnl(num, buf) ==
    LET src == AddnlBytes(num)
        n == Len(src)
        scratch == IF n = 0 THEN [tag |-> "Ok", buf |-> Zero8]
                   ELSE CopyFromSlice(Zero8, src)
    IN  IF scratch.tag = "Panic" THEN EPanic(buf)
        ELSE LET out == CopyFromSlice(buf, SubSeq(scratch.buf, 1, n))
             IN  IF out.tag = "Panic" THEN EPanic(buf) ELSE EOk(n, out.buf)

\* uN::from_be_bytes(bytes) as u64
FromBeBytes(bytes) ==
    [i \in 1..8 |-> IF i <= 8 - Len(bytes) THEN 0 ELSE bytes[i - (8 - Len(bytes))]]

\* fn decode_addnl(info, r)
decode_addnl(info, src, at) ==
    LET width == IF info.k = "U8" THEN 1
                 ELSE IF info.k = "U16" THEN 2
                 ELSE IF info.k = "U32" THEN 4
                 ELSE IF info.k = "U64" THEN 8 ELSE 0
        rd == ReadInto(src, at, width)
    IN  IF info.k = "Tiny"
        THEN [tag |-> "Ok", num |-> U64Of(info.v), pos |-> at, short |-> FALSE]
        ELSE IF width > 0
        THEN [tag |-> "Ok", num |-> FromBeBytes(rd.bytes), pos |-> rd.pos,
              short |-> rd.short]
        ELSE IF info.k = "Indefinite"
        THEN [tag |-> "Ok", num |-> Zero8, pos |-> at, short |-> FALSE]
        ELSE [tag |-> "Err", kind |-> "FailCbor", pos |-> at, short |-> FALSE]

\* ----------------------------------------------------------- SimpleValue

Simple(k) == [k |-> k, bits |-> <<>>]
Unassigned == Simple("Unassigned")
True == Simple("True")
False == Simple("False")
Null == Simple("Null")
Undefined == Simple("Undefined")
Break == Simple("Break")
\* Reserved24(u8); F16(u16), F32(f32), F64(f64) by their big-endian bytes.
Reserved24(num) == [k |-> "Reserved24", bits |-> <<num>>]
F16(bits) == [k |-> "F16", bits |-> bits]
F32(bits) == [k |-> "F32", bits |-> bits]
F64(bits) == [k |-> "F64", bits |-> bits]

\* ------------------------------------------------------------------ Cbor

Major0(info, num) == [major |-> 0, info |-> info, num |-> num]
Major1(info, num) == [major |-> 1, info |-> info, num |-> num]
Major2(info, byts) == [major |-> 2, info |-> info, byts |-> byts]
Major3(info, text) == [major |-> 3, info |-> info, text |-> text]
Major4(info, list) == [major |-> 4, info |-> info, list |-> list]
Major5(info, map) == [major |-> 5, info |-> info, map |-> map]
Major6(info, tagg) == [major |-> 6, info |-> info, tagg |-> tagg]
Major7(info, sval) == [major |-> 7, info |-> info, sval |-> sval]

\* A list nested in rep one-element lists, held run-length: the value
\* Major4(Tiny(1), [Major4(Tiny(1), [... inner ...])]) with rep headers.
Nested(rep, inner) ==
    [major |-> 4, info |-> Tiny(1), rep |-> rep, inner |-> inner]

\* The elements of a Major4 value.
ListOf(val) ==
    IF "rep" \in DOMAIN val
    THEN <<IF val.rep = 1 THEN val.inner ELSE [val EXCEPT !.rep = val.rep - 1]>>
    ELSE val.list

\* Cbor::to_major_val
to_major_val(val) == val.major

\* impl TryFrom<SimpleValue> for Cbor
SimpleToCbor(sval) ==
    IF sval.k = "True" THEN [tag |-> "Ok", val |-> Major7(Tiny(20), sval)]
    ELSE IF sval.k = "False" THEN [tag |-> "Ok", val |-> Major7(Tiny(21), sval)]
    ELSE IF sval.k = "Null" THEN [tag |-> "Ok", val |-> Major7(Tiny(22), sval)]
    ELSE IF sval.k = "F32" THEN [tag |-> "Ok", val |-> Major7(InfoU32, sval)]
    ELSE IF sval.k = "F64" THEN [tag |-> "Ok", val |-> Major7(InfoU64, sval)]
    ELSE [tag |-> "Err", kind |-> "FailConvert"]

\* SimpleValue::encode
SimpleValue_encode(sval, buf) ==
    LET n == IF sval.k = "Reserved24" THEN 1
             ELSE IF sval.k = "F16" THEN 2
             ELSE IF sval.k = "F32" THEN 4
             ELSE IF sval.k = "F64" THEN 8 ELSE 0
        scratch == IF n = 0 THEN [tag |-> "Ok", buf |-> Zero8]
                   ELSE IF n = 1
                   THEN [tag |-> "Ok",
                         buf |-> [i \in 1..8 |-> IF i = 1 THEN sval.bits[1] ELSE 0]]
                   ELSE CopyFromSlice(Zero8, sval.bits)
    IN  IF scratch.tag = "Panic" THEN EPanic(buf)
        ELSE LET out == CopyFromSlice(buf, SubSeq(scratch.buf, 1, n))
             IN  IF out.tag = "Panic" THEN EPanic(buf) ELSE EOk(n, out.buf)

\* SimpleValue::decode with an arm Info::Indefinite => SimpleValue::Break.
SimpleValue_decode_break(info, src, at) ==
    LET rd4 == ReadInto(src, at, 4)
        rd8 == ReadInto(src, at, 8)
    IN  IF info.k = "Tiny" /\ info.v = 20
        THEN [tag |-> "Ok", sval |-> True, pos |-> at, short |-> FALSE]
        ELSE IF info.k = "Tiny" /\ info.v = 21
        THEN [tag |-> "Ok", sval |-> False, pos |-> at, short |-> FALSE]
        ELSE IF info.k = "Tiny" /\ info.v = 22
        THEN [tag |-> "Ok", sval |-> Null, pos |-> at, short |-> FALSE]
        ELSE IF info.k = "U32"
        THEN [tag |-> "Ok", sval |-> F32(rd4.bytes), pos |-> rd4.pos,
              short |-> rd4.short]
        ELSE IF info.k = "U64"
        THEN [tag |-> "Ok", sval |-> F64(rd8.bytes), pos |-> rd8.pos,
              short |-> rd8.short]
        ELSE IF info.k = "Indefinite"
        THEN [tag |-> "Ok", sval |-> Break, pos |-> at, short |-> FALSE]
        ELSE [tag |-> "Err", kind |-> "FailCbor", pos |-> at, short |-> FALSE]

\* SimpleValue::decode
SimpleValue_decode(info, src, at) ==
    LET rd4 == ReadInto(src, at, 4)
        rd8 == ReadInto(src, at, 8)
    IN  IF info.k = "Tiny" /\ info.v = 20
        THEN [tag |-> "Ok", sval |-> True, pos |-> at, short |-> FALSE]
        ELSE IF info.k = "Tiny" /\ info.v = 21
        THEN [tag |-> "Ok", sval |-> False, pos |-> at, short |-> FALSE]
        ELSE IF info.k = "Tiny" /\ info.v = 22
        THEN [tag |-> "Ok", sval |-> Null, pos |-> at, short |-> FALSE]
        ELSE IF info.k = "U32"
        THEN [tag |-> "Ok", sval |-> F32(rd4.bytes), pos |-> rd4.pos,
              short |-> rd4.short]
        ELSE IF info.k = "U64"
        THEN [tag |-> "Ok", sval |-> F64(rd8.bytes), pos |-> rd8.pos,
              short |-> rd8.short]
        ELSE [tag |-> "Err", kind |-> "FailCbor", pos |-> at, short |-> FALSE]

\* ------------------------------------------------------------------- Tag

\* Tag::encode
Tag_encode(tagg, buf) == encode_addnl(tagg, buf)

\* Tag::decode that goes on to read the header of the tagged content.
Tag_decode_content(info, src, at) ==
    LET tagg == decode_addnl(info, src, at)
    IN  IF tagg.tag = "Err" THEN tagg
        ELSE [tagg EXCEPT !.pos = ReadInto(src, tagg.pos, 1).pos]

\* Tag::decode
Tag_decode(info, src, at) == decode_addnl(info, src, at)

\* ------------------------------------------------------------------- Key

KeyU64(v) == [k |-> "U64", v |-> v]
KeyN64(neg, mag) == [k |-> "N64", v |-> [neg |-> neg, mag |-> mag]]
KeyBytes(v) == [k |-> "Bytes", v |-> v]
KeyText(v) == [k |-> "Text", v |-> v]
KeyBool(v) == [k |-> "Bool", v |-> v]
KeyF32(v) == [k |-> "F32", v |-> v]
KeyF64(v) == [k |-> "F64", v |-> v]

\* impl TryFrom<Key> for Cbor. oc: the build checks integer overflow (debug
\* assertions); without them i64 arithmetic wraps.
KeyToCbor(key, oc) ==
    IF key.k = "U64"
    THEN [tag |-> "Ok", val |-> Major0(InfoFromU64(key.v), key.v)]
    ELSE IF key.k = "N64" /\ ~key.v.neg
    THEN [tag |-> "Ok", val |-> Major0(InfoFromU64(key.v.mag), key.v.mag)]
    ELSE IF key.k = "N64"
    THEN  \* key.abs() - 1: i64::MIN.abs() overflows, and wraps to i64::MIN,
          \* and i64::MIN - 1 wraps to i64::MAX
          IF LtU64(I64_MAX, key.v.mag)
          THEN IF oc THEN [tag |-> "Panic", kind |-> "overflow"]
               ELSE [tag |-> "Ok", val |-> Major1(InfoFromU64(I64_MAX), I64_MAX)]
          ELSE LET val == U64Sub1(key.v.mag)
               IN  [tag |-> "Ok", val |-> Major1(InfoFromU64(val), val)]
    ELSE IF key.k = "Bytes"
    THEN [tag |-> "Ok", val |-> Major2(InfoTryFromUsize(Len(key.v)), key.v)]
    ELSE IF key.k = "Text"
    THEN [tag |-> "Ok", val |-> Major3(InfoTryFromUsize(Len(key.v)), key.v)]
    ELSE IF key.k = "Bool"
    THEN SimpleToCbor(IF key.v THEN True ELSE False)
    ELSE IF key.k = "F32" THEN SimpleToCbor(F32(key.v))
    ELSE SimpleToCbor(F64(key.v))

\* std::str::from_utf8: whether the bytes from index i on are well-formed UTF-8.
Cont(s, i) == i <= Len(s) /\ s[i] >= 128 /\ s[i] <= 191

RECURSIVE Utf8Valid(_, _)
Utf8Valid(s, i) ==
    IF i > Len(s) THEN TRUE
    ELSE LET b == s[i]
             b2 == IF i + 1 <= Len(s) THEN s[i + 1] ELSE 0
         IN  IF b < 128 THEN Utf8Valid(s, i + 1)
             ELSE IF b >= 194 /\ b <= 223
             THEN Cont(s, i + 1) /\ Utf8Valid(s, i + 2)
             ELSE IF b >= 224 /\ b <= 239
             THEN /\ Cont(s, i + 1) /\ Cont(s, i + 2)
                  /\ (b = 224 => b2 >= 160)
                  /\ (b = 237 => b2 <= 159)
                  /\ Utf8Valid(s, i + 3)
             ELSE IF b >= 240 /\ b <= 244
             THEN /\ Cont(s, i + 1) /\ Cont(s, i + 2) /\ Cont(s, i + 3)
                  /\ (b = 240 => b2 >= 144)
                  /\ (b = 244 => b2 <= 143)
                  /\ Utf8Valid(s, i + 4)
             ELSE FALSE

\* impl TryFrom<Cbor> for Key
CborToKey(val, oc) ==
    IF val.major = 0 THEN [tag |-> "Ok", key |-> KeyU64(val.num)]
    ELSE IF val.major = 1
    THEN  \* -(i64::try_from(key + 1)?)
          IF val.num = U64_MAX
          THEN IF oc THEN [tag |-> "Panic", kind |-> "overflow"]
               ELSE [tag |-> "Ok", key |-> KeyN64(FALSE, Zero8)]
          ELSE IF LtU64(I64_MAX, U64Add1(val.num))
          THEN [tag |-> "Err", kind |-> "FailConvert"]
          ELSE [tag |-> "Ok", key |-> KeyN64(TRUE, U64Add1(val.num))]
    ELSE IF val.major = 2 THEN [tag |-> "Ok", key |-> KeyBytes(val.byts)]
    ELSE IF val.major = 3
    THEN IF Utf8Valid(val.text, 1) THEN [tag |-> "Ok", key |-> KeyText(val.text)]
         ELSE [tag |-> "Err", kind |-> "FailConvert"]
    ELSE IF val.major = 7 /\ val.sval.k = "True"
    THEN [tag |-> "Ok", key |-> KeyBool(TRUE)]
    ELSE IF val.major = 7 /\ val.sval.k = "False"
    THEN [tag |-> "Ok", key |-> KeyBool(FALSE)]
    ELSE IF val.major = 7 /\ val.sval.k = "F32"
    THEN [tag |-> "Ok", key |-> KeyF32(val.sval.bits)]
    ELSE IF val.major = 7 /\ val.sval.k = "F64"
    THEN [tag |-> "Ok", key |-> KeyF64(val.sval.bits)]
    ELSE [tag |-> "Err", kind |-> "FailKey"]

\* --------------------------------------------------------------- encoder

RECURSIVE do_encode(_, _, _, _)
RECURSIVE EncodeList(_, _, _, _, _, _)
RECURSIVE EncodeMap(_, _, _, _, _, _)

\* for x in list.iter() { acc += x.do_encode(buf, depth + 1)?; }
EncodeList(list, i, buf, depth, acc, oc) ==
    IF i > Len(list) THEN EOk(acc, buf)
    ELSE LET x == do_encode(list[i], buf, depth + 1, oc)
         IN  IF x.tag # "Ok" THEN x
             ELSE EncodeList(list, i + 1, x.buf, depth, acc + x.n, oc)

\* for (key, val) in map.iter() { key.try_into()?; key, then val, at depth + 1 }
EncodeMap(map, i, buf, depth, acc, oc) ==
    IF i > Len(map) THEN EOk(acc, buf)
    ELSE LET key == KeyToCbor(map[i].key, oc)
         IN  IF key.tag = "Panic" THEN EPanic(buf)
             ELSE IF key.tag = "Err" THEN EErr(key.kind, buf)
             ELSE LET k == do_encode(key.val, buf, depth + 1, oc)
                  IN  IF k.tag # "Ok" THEN k
                      ELSE LET v == do_encode(map[i].val, k.buf, depth + 1, oc)
                           IN  IF v.tag # "Ok" THEN v
                               ELSE EncodeMap(map, i + 1, v.buf, depth,
                                              acc + k.n + v.n, oc)

\* Cbor::do_encode
do_encode(val, buf, depth, oc) ==
    IF depth > RECURSION_LIMIT THEN EErr("FailCbor", buf)
    ELSE
    LET major == to_major_val(val)
        hdr == encode_hdr(major, val.info, buf)
    IN  IF hdr.tag # "Ok" THEN hdr
        ELSE IF major = 0 \/ major = 1
        THEN LET m == encode_addnl(val.num, hdr.buf)
             IN  IF m.tag # "Ok" THEN m ELSE EOk(hdr.n + m.n, m.buf)
        ELSE IF major = 2 \/ major = 3
        THEN LET payload == IF major = 2 THEN val.byts ELSE val.text
                 m == encode_addnl(U64Of(Len(payload)), hdr.buf)
             IN  IF m.tag # "Ok" THEN m
                 ELSE LET out == CopyFromSlice(m.buf, payload)
                      IN  IF out.tag = "Panic" THEN EPanic(m.buf)
                          ELSE EOk(hdr.n + m.n + Len(payload), out.buf)
        ELSE IF major = 4
        THEN LET m == encode_addnl(U64Of(Len(ListOf(val))), hdr.buf)
             IN  IF m.tag # "Ok" THEN m
                 ELSE LET items == EncodeList(ListOf(val), 1, m.buf, depth, 0, oc)
                      IN  IF items.tag # "Ok" THEN items
                          ELSE EOk(hdr.n + m.n + items.n, items.buf)
        ELSE IF major = 5
        THEN LET m == encode_addnl(U64Of(Len(val.map)), hdr.buf)
             IN  IF m.tag # "Ok" THEN m
                 ELSE LET pairs == EncodeMap(val.map, 1, m.buf, depth, 0, oc)
                      IN  IF pairs.tag # "Ok" THEN pairs
                          ELSE EOk(hdr.n + m.n + pairs.n, pairs.buf)
        ELSE IF major = 6
        THEN LET m == Tag_encode(val.tagg, hdr.buf)
             IN  IF m.tag # "Ok" THEN m ELSE EOk(hdr.n + m.n, m.buf)
        ELSE LET m == SimpleValue_encode(val.sval, hdr.buf)
             IN  IF m.tag # "Ok" THEN m ELSE EOk(hdr.n + m.n, m.buf)

\* Cbor::encode
Cbor_encode(val, buf, oc) == do_encode(val, buf, 1, oc)

\* ------------------------------------------------------------ the state

VARIABLES
    api,     \* "cbor": the caller uses Cbor::encode / Cbor::decode;
             \* "raw": it calls the header and additional-value functions
    role,    \* "writer": the caller holds a sink; "reader": it holds a source
    oc,      \* the build panics on integer overflow (debug assertions)
    tree,    \* the Cbor value the writer holds
    buf,     \* the sink: the caller's Vec<u8>
    data,    \* the source: the bytes behind the caller's reader
    pos,     \* the reader's cursor: the bytes consumed so far
    pc,      \* "idle"; inside Cbor::decode, "call" (do_decode is entered) or
             \* "ret" (do_decode returns retval); "crashed" after a panic
    stack,   \* the do_decode activations that wait inside a loop
    retval,  \* the value do_decode returns
    log      \* the calls made so far, each with its arguments and its result

vars == <<api, role, oc, tree, buf, data, pos, pc, stack, retval, log>>

\* --------------------------------------------------------------- inputs

EmptyList == Major4(Tiny(0), <<>>)
U23 == Major0(Tiny(23), U64Of(23))
U24 == Major0(InfoU8, U64Of(24))
TextIT == Major3(Tiny(2), <<73, 84>>)
Two32 == <<0, 0, 0, 1, 0, 0, 0, 0>>
Two63 == <<128, 0, 0, 0, 0, 0, 0, 0>>
Pi32 == <<64, 73, 15, 219>>
Pi64 == <<64, 9, 33, 251, 84, 68, 45, 24>>

\* The u64 the raw calls are made with: each side of each width boundary.
Nums ==
    {U64Of(0), U64Of(1), U64Of(23), U64Of(24), U8_MAX, U64Of(256), U16_MAX,
     U64Of(65536), U32_MAX, Two32, I64_MAX, Two63, U64_MAX}

\* Every descriptor: the 32 codes, and two Tiny values that have no code.
Infos ==
    {Tiny(v) : v \in 0..23} \cup {Tiny(24), Tiny(255)}
    \cup {InfoU8, InfoU16, InfoU32, InfoU64, Reserved28, Reserved29, Reserved30,
          Indefinite}

\* The descriptors decode_addnl is called with.
ReadInfos ==
    {Tiny(0), Tiny(1), Tiny(23), InfoU8, InfoU16, InfoU32, InfoU64, Reserved28,
     Reserved29, Reserved30, Indefinite}

\* The trees the writer encodes.
Leaves ==
    {U23, U24, Major0(Tiny(0), U64Of(0)), Major0(InfoU16, U64Of(256)),
     Major0(InfoU32, U64Of(65536)), Major0(InfoU64, Two32),
     Major0(Tiny(24), U64Of(24)),
     Major1(Tiny(0), U64Of(0)), Major1(InfoU64, U64_MAX),
     Major2(Tiny(0), <<>>), Major2(Tiny(1), <<1>>),
     Major3(Tiny(0), <<>>), TextIT,
     Major7(Tiny(20), True), Major7(Tiny(21), False), Major7(Tiny(22), Null),
     Major7(InfoU32, F32(Pi32)), Major7(InfoU64, F64(Pi64))}

Excluded ==
    {Major6(Tiny(1), U64Of(1)), Major6(InfoU64, Two32),
     Major7(InfoU16, F16(<<60, 0>>)), Major7(Tiny(23), Undefined),
     Major7(Indefinite, Break), Major7(Tiny(0), Unassigned),
     Major7(InfoU8, Reserved24(32))}

Pair(key, val) == [key |-> key, val |-> val]

Aggregates ==
    {EmptyList, Major4(Tiny(1), <<U23>>), Major4(Tiny(2), <<U24, TextIT>>),
     Major4(Tiny(1), <<Major4(Tiny(1), <<U23>>)>>),
     Major4(Tiny(1), <<Major6(Tiny(1), U64Of(1))>>),
     Major5(Tiny(0), <<>>),
     Major5(Tiny(1), <<Pair(KeyU64(U64Of(5)), Major7(Tiny(20), True))>>),
     Major5(Tiny(2), <<Pair(KeyN64(TRUE, U64Of(1)), U23),
                       Pair(KeyText(<<73, 84>>), EmptyList)>>),
     Major5(Tiny(1), <<Pair(KeyN64(TRUE, Two63), U23)>>)}

\* Lists nested RECURSION_LIMIT and RECURSION_LIMIT + 1 deep, the outermost at
\* depth 1, the innermost empty.
Deep == {Nested(RECURSION_LIMIT - 1, EmptyList), Nested(RECURSION_LIMIT, EmptyList)}

Values == Leaves \cup Excluded \cup Aggregates \cup Deep

\* What the sink holds before the call.
Sinks == {<<>>, <<1, 2, 3, 4, 5, 6, 7>>, <<1, 2, 3, 4, 5, 6, 7, 8>>}

\* The bytes the enumerated sources are made of: a header of each major type in
\* its immediate, widened, reserved and indefinite forms, and the Break byte.
Alphabet == {0, 23, 24, 28, 31, 65, 95, 128, 129, 159, 161, 191, 244, 255}

RECURSIVE Strings(_)
Strings(n) ==
    IF n = 0 THEN {<<>>}
    ELSE LET shorter == Strings(n - 1)
         IN  shorter \cup {Append(s, b) : s \in {t \in shorter : Len(t) = n - 1},
                                          b \in Alphabet}

\* n - 1 headers of a one-element list, then an empty list: a list nested n deep.
NestSrc(n) == [i \in 1..n |-> IF i = n THEN 128 ELSE 129]

RECURSIVE Repeat(_, _)
Repeat(s, n) == IF n = 0 THEN <<>> ELSE s \o Repeat(s, n - 1)

\* An indefinite header, n copies of one item, and the Break byte.
Chunked(hdr, item, n) == <<hdr>> \o Repeat(item, n) \o <<255>>

ChunkCounts == {0, 1, 5}

Vectors ==
    {NestSrc(RECURSION_LIMIT), NestSrc(RECURSION_LIMIT + 1)}
    \cup {Chunked(95, <<65, 7>>, n) : n \in ChunkCounts}
    \cup {Chunked(127, <<97, 73>>, n) : n \in ChunkCounts}
    \cup {Chunked(159, <<23>>, n) : n \in ChunkCounts}
    \cup {Chunked(191, <<23, 244>>, n) : n \in ChunkCounts}
    \cup {<<250, 63, 128>>, <<250, 63, 128, 0, 0>>, <<251, 64, 9, 33>>,
          <<66, 73>>, <<98, 73, 84>>, <<25, 1>>, <<27, 1, 2, 3>>,
          <<63>>, <<223>>, <<60>>, <<220>>,
          <<191, 23, 244, 23, 255>>, <<193, 23>>, <<98, 73, 84, 23>>,
          <<161, 59, 255, 255, 255, 255, 255, 255, 255, 255, 0>>,
          <<91, 255, 255, 255, 255, 255, 255, 255, 255>>,
          <<1, 2, 3, 4, 5, 6, 7, 8, 9>>}

\* Major-7 headers of each descriptor kind, and floats with their payload.
SimpleSrcs ==
    {<<224>>, <<243>>, <<245>>, <<246>>, <<247>>, <<248>>, <<249>>, <<252>>,
     <<253>>, <<254>>, <<250>> \o Pi32 \o <<23>>, <<251>> \o Pi64,
     <<251>> \o Pi64 \o <<245>>}

Sources == Strings(MaxSrcLen) \cup Vectors \cup SimpleSrcs

\* The sources the raw reader calls are made on.
RawSources ==
    {<<>>, <<23>>, <<24>>, <<255>>, <<1, 2>>, <<1, 2, 3>>, <<1, 2, 3, 4>>,
     <<1, 2, 3, 4, 5, 6, 7>>, <<1, 2, 3, 4, 5, 6, 7, 8>>,
     <<1, 2, 3, 4, 5, 6, 7, 8, 9>>}

\* The keys TryFrom<Key> for Cbor is called with: unsigned, signed on each side
\* of zero and of each width boundary up to i64::MIN and i64::MAX, and one of
\* each other kind. A negative i64 has a magnitude in 1..2^63.
KeyMags == Nums \cup {U64Of(25), U64Of(257)}

Keys ==
    {KeyU64(n) : n \in Nums}
    \cup {KeyN64(FALSE, n) : n \in {m \in KeyMags : LeU64(m, I64_MAX)}}
    \cup {KeyN64(TRUE, n) : n \in {m \in KeyMags : m # Zero8 /\ LeU64(m, Two63)}}
    \cup {KeyBytes(<<>>), KeyBytes(<<1>>), KeyText(<<73, 84>>), KeyBool(TRUE),
          KeyBool(FALSE), KeyF32(Pi32), KeyF64(Pi64)}

\* The values TryFrom<Cbor> for Key is called with.
KeyValues ==
    {Major1(InfoFromU64(n), n) : n \in Nums \cup {U64Sub1(I64_MAX)}}
    \cup Leaves \cup Excluded \cup {EmptyList, Major3(Tiny(1), <<255>>)}

NoFrame == <<>>
Running == [tag |-> "Running"]

Init ==
    /\ \/ /\ role = "writer" /\ api = "cbor"
          /\ oc \in BOOLEAN /\ tree \in Values /\ buf \in Sinks /\ data = <<>>
       \/ /\ role = "writer" /\ api = "raw"
          /\ oc = FALSE /\ tree = EmptyList /\ buf \in Sinks /\ data = <<>>
       \/ /\ role = "reader" /\ api = "cbor"
          /\ oc \in BOOLEAN /\ tree = EmptyList /\ buf = <<>> /\ data \in Sources
       \/ /\ role = "reader" /\ api = "raw"
          /\ oc = FALSE /\ tree = EmptyList /\ buf = <<>> /\ data \in RawSources
       \/ /\ role = "caller" /\ api = "key"
          /\ oc \in BOOLEAN /\ tree = EmptyList /\ buf = <<>> /\ data = <<>>
    /\ pos = 0
    /\ pc = "idle"
    /\ stack = <<>>
    /\ retval = EmptyList
    /\ log = <<>>

\* ------------------------------------------------------------ the writer

Finished(res) == IF res.tag = "Panic" THEN "crashed" ELSE "idle"

\* Cbor::encode(tree, &mut buf)
Encode ==
    /\ role = "writer" /\ api = "cbor" /\ pc = "idle" /\ log = <<>>
    /\ LET res == Cbor_encode(tree, buf, oc)
       IN  /\ buf' = res.buf
           /\ pc' = Finished(res)
           /\ log' = Append(log, [op |-> "encode", val |-> tree, pre |-> buf,
                                  res |-> res])
    /\ UNCHANGED <<api, role, oc, tree, data, pos, stack, retval>>

\* encode_hdr(major, info, &mut buf)
EncodeHdr ==
    /\ role = "writer" /\ api = "raw" /\ pc = "idle" /\ log = <<>>
    /\ \E major \in 0..7, info \in Infos :
         LET res == encode_hdr(major, info, buf)
         IN  /\ buf' = res.buf
             /\ pc' = Finished(res)
             /\ log' = Append(log, [op |-> "encode_hdr", major |-> major,
                                    info |-> info, pre |-> buf, res |-> res])
    /\ UNCHANGED <<api, role, oc, tree, data, pos, stack, retval>>

\* encode_addnl(num, &mut buf)
EncodeAddnl ==
    /\ role = "writer" /\ api = "raw" /\ pc = "idle" /\ log = <<>>
    /\ \E num \in Nums :
         LET res == encode_addnl(num, buf)
         IN  /\ buf' = res.buf
             /\ pc' = Finished(res)
             /\ log' = Append(log, [op |-> "encode_addnl", num |-> num,
                                    pre |-> buf, res |-> res])
    /\ UNCHANGED <<api, role, oc, tree, data, pos, stack, retval>>

\* The caller hands what its sink holds to a reader.
Feed ==
    /\ role = "writer" /\ pc = "idle" /\ log # <<>>
    /\ role' = "reader"
    /\ data' = buf
    /\ pos' = 0
    /\ log' = Append(log, [op |-> "feed"])
    /\ UNCHANGED <<api, oc, tree, buf, pc, stack, retval>>

\* ------------------------------------------------------------ the reader

Reads == Cardinality({i \in 1..Len(log) : log[i].op = "decode"})
RawReads ==
    Cardinality({i \in 1..Len(log) : log[i].op \in {"decode_hdr", "decode_addnl"}})

\* decode_hdr(&mut r)
DecodeHdr ==
    /\ role = "reader" /\ api = "raw" /\ pc = "idle" /\ RawReads = 0
    /\ LET res == decode_hdr(data, pos)
       IN  /\ pos' = res.pos
           /\ log' = Append(log, [op |-> "decode_hdr", from |-> pos, res |-> res])
    /\ UNCHANGED <<api, role, oc, tree, buf, data, pc, stack, retval>>

\* decode_addnl(info, &mut r)
DecodeAddnl ==
    /\ role = "reader" /\ api = "raw" /\ pc = "idle" /\ RawReads = 0
    /\ \E info \in ReadInfos :
         LET res == decode_addnl(info, data, pos)
         IN  /\ pos' = res.pos
             /\ log' = Append(log, [op |-> "decode_addnl", info |-> info,
                                    from |-> pos, res |-> res])
    /\ UNCHANGED <<api, role, oc, tree, buf, data, pc, stack, retval>>

\* ------------------------------------------------------- key conversions

\* Cbor::try_from(key)
KeyTryInto ==
    /\ role = "caller" /\ api = "key" /\ pc = "idle" /\ log = <<>>
    /\ \E key \in Keys :
         LET res == KeyToCbor(key, oc)
         IN  /\ pc' = Finished(res)
             /\ log' = Append(log, [op |-> "key_to_cbor", key |-> key,
                                    res |-> res])
    /\ UNCHANGED <<api, role, oc, tree, buf, data, pos, stack, retval>>

\* Key::try_from(val)
CborTryInto ==
    /\ role = "caller" /\ api = "key" /\ pc = "idle" /\ log = <<>>
    /\ \E val \in KeyValues :
         LET res == CborToKey(val, oc)
         IN  /\ pc' = Finished(res)
             /\ log' = Append(log, [op |-> "cbor_to_key", val |-> val,
                                    res |-> res])
    /\ UNCHANGED <<api, role, oc, tree, buf, data, pos, stack, retval>>

\* ----------------------------------------------------------- the decoder

\* One activation of do_decode that is inside one of its loops: the header it
\* read, the count of a definite list or map, and the loop's locals.
Frame(major, info, indef, n) ==
    [major |-> major, info |-> info, indef |-> indef, n |-> n, acc |-> <<>>,
     haskey |-> FALSE, key |-> KeyU64(Zero8)]

\* What a step of do_decode comes to: it fails (the ? operator returns the error
\* through every caller), it panics, it returns a value, it enters (or goes
\* round) a loop, or it leaves what the model follows.
Outcome(kind, err, val, frame, at, short) ==
    [kind |-> kind, err |-> err, val |-> val, frame |-> frame, pos |-> at,
     short |-> short]
Fail(kind, at, short) == Outcome("fail", kind, EmptyList, NoFrame, at, short)
Panicked(at, short) == Outcome("panic", "", EmptyList, NoFrame, at, short)
Value(val, at, short) == Outcome("value", "", val, NoFrame, at, short)
Loop(frame, at, short) == Outcome("loop", "", EmptyList, frame, at, short)
Beyond(at) == Outcome("beyond", "", EmptyList, NoFrame, at, FALSE)

\* Cbor::do_decode from its entry to its first nested call, or to its return
\* when it makes none.
Enter(src, at, depth) ==
    IF depth > RECURSION_LIMIT THEN Fail("FailCbor", at, FALSE)
    ELSE
    LET hdr == decode_hdr(src, at)
    IN  IF hdr.tag = "Err" THEN Fail(hdr.kind, hdr.pos, hdr.short)
        ELSE
        LET major == hdr.major
            info == hdr.info
            addnl == decode_addnl(info, src, hdr.pos)
            sh == hdr.short \/ addnl.short
        IN  IF major = 0 \/ major = 1
            THEN IF addnl.tag = "Err" THEN Fail(addnl.kind, addnl.pos, sh)
                 ELSE Value([major |-> major, info |-> info, num |-> addnl.num],
                            addnl.pos, sh)
            ELSE IF major = 2 \/ major = 3
            THEN IF info = Indefinite
                 THEN Loop(Frame(major, info, TRUE, Zero8), hdr.pos, hdr.short)
                 ELSE IF addnl.tag = "Err" THEN Fail(addnl.kind, addnl.pos, sh)
                 \* vec![0; n]: capacity overflow above isize::MAX
                 ELSE IF LtU64(I64_MAX, addnl.num) THEN Panicked(addnl.pos, sh)
                 ELSE IF ~FitsNat(addnl.num) \/ U64ToNat(addnl.num) > MaxAlloc
                 THEN Beyond(addnl.pos)
                 ELSE LET rd == ReadInto(src, addnl.pos, U64ToNat(addnl.num))
                      IN  Value(IF major = 2 THEN Major2(info, rd.bytes)
                                ELSE Major3(info, rd.bytes), rd.pos,
                                sh \/ rd.short)
            ELSE IF major = 4 \/ major = 5
            THEN IF info = Indefinite
                 THEN Loop(Frame(major, info, TRUE, Zero8), hdr.pos, hdr.short)
                 ELSE IF addnl.tag = "Err" THEN Fail(addnl.kind, addnl.pos, sh)
                 ELSE IF addnl.num = Zero8
                 THEN Value(IF major = 4 THEN Major4(info, <<>>)
                            ELSE Major5(info, <<>>), addnl.pos, sh)
                 ELSE Loop(Frame(major, info, FALSE, addnl.num), addnl.pos, sh)
            ELSE IF major = 6
            THEN LET tagg == Tag_decode(info, src, hdr.pos)
                 IN  IF tagg.tag = "Err" THEN Fail(tagg.kind, tagg.pos, sh)
                     ELSE Value(Major6(info, tagg.num), tagg.pos, sh)
            ELSE LET sval == SimpleValue_decode(info, src, hdr.pos)
                 IN  IF sval.tag = "Err"
                     THEN Fail(sval.kind, sval.pos, hdr.short \/ sval.short)
                     ELSE Value(Major7(info, sval.sval), sval.pos,
                                hdr.short \/ sval.short)

IsBreak(val) == val.major = 7 /\ val.sval.k = "Break"

\* The aggregate a loop's activation returns.
Aggregate(f, acc) ==
    IF f.major = 2 THEN Major2(f.info, acc)
    ELSE IF f.major = 3 THEN Major3(f.info, acc)
    ELSE IF f.major = 4 THEN Major4(f.info, acc)
    ELSE Major5(f.info, acc)

\* list.push(item) / map.push((key, val)), and the end of a counted loop.
Push(f, item, at) ==
    LET acc == Append(f.acc, item)
    IN  IF Len(f.acc) >= MaxItems THEN Beyond(at)
        ELSE IF ~f.indef /\ U64Of(Len(acc)) = f.n
        THEN Value(Aggregate(f, acc), at, FALSE)
        ELSE Loop([f EXCEPT !.acc = acc, !.haskey = FALSE], at, FALSE)

\* The body of the loop of activation f, given the value val its nested
\* do_decode returned.
Deliver(f, val, at, checks) ==
    IF f.major = 2 \/ f.major = 3
    THEN IF val.major = f.major
         THEN Loop([f EXCEPT !.acc = f.acc \o (IF val.major = 2 THEN val.byts
                                               ELSE val.text)], at, FALSE)
         ELSE IF IsBreak(val) THEN Value(Aggregate(f, f.acc), at, FALSE)
         ELSE Fail("FailConvert", at, FALSE)
    ELSE IF f.major = 4
    THEN IF f.indef /\ IsBreak(val) THEN Value(Aggregate(f, f.acc), at, FALSE)
         ELSE Push(f, val, at)
    ELSE IF ~f.haskey
    THEN LET key == CborToKey(val, checks)
         IN  IF key.tag = "Panic" THEN Panicked(at, FALSE)
             ELSE IF key.tag = "Err" THEN Fail(key.kind, at, FALSE)
             ELSE Loop([f EXCEPT !.haskey = TRUE, !.key = key.key], at, FALSE)
    ELSE IF f.indef /\ IsBreak(val) THEN Value(Aggregate(f, f.acc), at, FALSE)
    ELSE Push(f, Pair(f.key, val), at)

\* The call in progress, in the log: whether one of its reads came back short,
\* and its result once it has one.
Logged(short, res) ==
    [log EXCEPT ![Len(log)].short = @ \/ short, ![Len(log)].res = res]

\* What a step's outcome makes of the decoder's state; rest is the stack below
\* the activation the step ran in.
Apply(out, rest) ==
    /\ out.kind # "beyond"
    /\ pos' = out.pos
    /\ pc' = IF out.kind = "fail" THEN "idle"
             ELSE IF out.kind = "panic" THEN "crashed"
             ELSE IF out.kind = "value" THEN "ret" ELSE "call"
    /\ stack' = IF out.kind = "loop" THEN Append(rest, out.frame)
                ELSE IF out.kind = "value" THEN rest ELSE <<>>
    /\ retval' = IF out.kind = "value" THEN out.val ELSE retval
    /\ log' = Logged(out.short,
                     IF out.kind = "fail"
                     THEN [tag |-> "Err", kind |-> out.err, pos |-> out.pos]
                     ELSE IF out.kind = "panic"
                     THEN [tag |-> "Panic", pos |-> out.pos]
                     ELSE Running)

\* Cbor::decode(&mut r): do_decode(r, 1) is entered.
DecodeStart ==
    /\ role = "reader" /\ api = "cbor" /\ pc = "idle" /\ Reads < MaxReads
    /\ pc' = "call"
    /\ stack' = <<>>
    /\ log' = Append(log, [op |-> "decode", from |-> pos, short |-> FALSE,
                           res |-> Running])
    /\ UNCHANGED <<api, role, oc, tree, buf, data, pos, retval>>

\* do_decode(r, depth) runs from its entry, at depth 1 + the activations waiting.
DoDecode ==
    /\ pc = "call"
    /\ Apply(Enter(data, pos, Len(stack) + 1), stack)
    /\ UNCHANGED <<api, role, oc, tree, buf, data>>

\* do_decode returns retval: to Cbor::decode's caller, or into the loop of the
\* activation that called it.
Return ==
    /\ pc = "ret"
    /\ IF stack = <<>>
       THEN /\ pc' = "idle"
            /\ log' = Logged(FALSE, [tag |-> "Ok", val |-> retval, pos |-> pos])
            /\ UNCHANGED <<pos, stack, retval>>
       ELSE Apply(Deliver(stack[Len(stack)], retval, pos, oc),
                  SubSeq(stack, 1, Len(stack) - 1))
    /\ UNCHANGED <<api, role, oc, tree, buf, data>>

\* ------------------------------------------------------------- the system

Next ==
    \/ Encode
    \/ EncodeHdr
    \/ EncodeAddnl
    \/ Feed
    \/ DecodeStart
    \/ DoDecode
    \/ Return
    \/ DecodeHdr
    \/ DecodeAddnl
    \/ KeyTryInto
    \/ CborTryInto

Spec == Init /\ [][Next]_vars

\* The sessions of the raw codec calls alone: encode_hdr, encode_addnl,
\* decode_hdr and decode_addnl.
InitRaw == Init /\ api = "raw"

NextRaw ==
    \/ EncodeHdr
    \/ EncodeAddnl
    \/ Feed
    \/ DecodeHdr
    \/ DecodeAddnl

SpecRaw == InitRaw /\ [][NextRaw]_vars

\* ---------------------------------------------------------- properties

Calls == 1..Len(log)

\* Call i is a Cbor::decode from the start of the source src, and has ended.
Decoded(i, src) ==
    /\ log[i].op = "decode" /\ log[i].from = 0 /\ data = src
    /\ log[i].res.tag # "Running"

\* Call i + 2 is a read of what call i wrote into an empty sink.
ReadBack(i, op) ==
    /\ log[i].pre = <<>>
    /\ Len(log) >= i + 2 /\ log[i + 1].op = "feed" /\ log[i + 2].op = op

RECURSIVE Plain(_)
\* No Tag, f16, Undefined, Break or Unassigned at any position of val.
Plain(val) ==
    IF val.major = 6 THEN FALSE
    ELSE IF val.major = 7
    THEN val.sval.k \notin {"F16", "Undefined", "Break", "Unassigned"}
    ELSE IF val.major = 4
    THEN IF "rep" \in DOMAIN val THEN Plain(val.inner)
         ELSE \A j \in 1..Len(val.list) : Plain(val.list[j])
    ELSE IF val.major = 5
    THEN \A j \in 1..Len(val.map) : Plain(val.map[j].val)
    ELSE TRUE

\* Whether val is one of the lists nested to the recursion limit and beyond.
IsDeep(val) == val.major = 4 /\ "rep" \in DOMAIN val

\* C1: a tree with no Tag, f16, Undefined, Break or Unassigned in it, encoded
\* into an empty sink, encodes successfully, and decoding the bytes produced
\* succeeds and returns the same tree.
C1_RoundTrip ==
    \A i \in Calls :
        (log[i].op = "encode" /\ log[i].pre = <<>> /\ Plain(log[i].val)
         /\ ~IsDeep(log[i].val))
        => /\ log[i].res.tag = "Ok"
           /\ (ReadBack(i, "decode") /\ log[i + 2].res.tag # "Running")
              => /\ log[i + 2].res.tag = "Ok"
                 /\ log[i + 2].res.val = log[i].val

\* C2: into an empty sink, unsigned 23 encodes to 0x17, unsigned 24 to
\* 0x18 0x18, the text "IT" to 0x62 0x49 0x54 and the empty list to 0x80; and
\* decoding the byte 0x80 gives the empty list.
C2_LiteralVectors ==
    \A i \in Calls :
        /\ (log[i].op = "encode" /\ log[i].pre = <<>>)
           => /\ log[i].val = U23 => log[i].res = EOk(1, <<23>>)
              /\ log[i].val = U24 => log[i].res = EOk(2, <<24, 24>>)
              /\ log[i].val = TextIT => log[i].res = EOk(3, <<98, 73, 84>>)
              /\ log[i].val = EmptyList => log[i].res = EOk(1, <<128>>)
        /\ Decoded(i, <<128>>)
           => log[i].res = [tag |-> "Ok", val |-> EmptyList, pos |-> 1]

\* C3: a read that comes back short fails the call with an I/O error:
\* decode_hdr on a source with no byte left, and Cbor::decode of an input that
\* ends inside a header, an additional value or a payload.
C3_ShortReadFails ==
    \A i \in Calls :
        /\ (log[i].op = "decode_hdr" /\ log[i].from >= Len(data))
           => (log[i].res.tag = "Err" /\ log[i].res.kind = "IOError")
        /\ (log[i].op = "decode" /\ log[i].short)
           => (log[i].res.tag = "Err" /\ log[i].res.kind = "IOError")

\* C4: an indefinite header, N definite-length chunks, items or pairs (N in
\* {0, 1, 5}) and a Break byte decode to the aggregate of those chunks: the
\* concatenation for bytes and text, the sequence for lists and maps.
C4_IndefiniteDecoding ==
    \A i \in Calls, n \in ChunkCounts :
        /\ Decoded(i, Chunked(95, <<65, 7>>, n))
           => /\ log[i].res.tag = "Ok" /\ log[i].res.val.major = 2
              /\ log[i].res.val.byts = Repeat(<<7>>, n)
        /\ Decoded(i, Chunked(127, <<97, 73>>, n))
           => /\ log[i].res.tag = "Ok" /\ log[i].res.val.major = 3
              /\ log[i].res.val.text = Repeat(<<73>>, n)
        /\ Decoded(i, Chunked(159, <<23>>, n))
           => /\ log[i].res.tag = "Ok" /\ log[i].res.val.major = 4
              /\ log[i].res.val.list = [j \in 1..n |-> U23]
        /\ Decoded(i, Chunked(191, <<23, 244>>, n))
           => /\ log[i].res.tag = "Ok" /\ log[i].res.val.major = 5
              /\ log[i].res.val.map =
                     [j \in 1..n |-> Pair(KeyU64(U64Of(23)), Major7(Tiny(20), True))]

\* C5: a call terminates: a list or map loop takes input for every item it
\* accumulates and the call ends when the input is exhausted, so that no loop
\* ever holds more items than the input has bytes.
C5_LoopsBoundedByInput ==
    \A k \in 1..Len(stack) :
        stack[k].major \in {4, 5} => Len(stack[k].acc) <= Len(data)

\* C6: a list nested 1001 deep fails to encode and fails to decode, with the
\* structural error of the recursion limit; a list nested 1000 deep encodes
\* and decodes.
C6_RecursionLimit ==
    \A i \in Calls :
        /\ (log[i].op = "encode" /\ log[i].val = Nested(RECURSION_LIMIT, EmptyList))
           => (log[i].res.tag = "Err" /\ log[i].res.kind = "FailCbor")
        /\ (log[i].op = "encode"
            /\ log[i].val = Nested(RECURSION_LIMIT - 1, EmptyList))
           => log[i].res.tag = "Ok"
        /\ Decoded(i, NestSrc(RECURSION_LIMIT + 1))
           => (log[i].res.tag = "Err" /\ log[i].res.kind = "FailCbor")
        /\ Decoded(i, NestSrc(RECURSION_LIMIT)) => log[i].res.tag = "Ok"

\* C7: after a successful Cbor::encode what the sink held before is an
\* unchanged prefix of what it holds now, and the count returned is the number
\* of bytes added.
C7_EncodeAppends ==
    \A i \in Calls :
        (log[i].op = "encode" /\ log[i].res.tag = "Ok")
        => /\ Len(log[i].res.buf) >= Len(log[i].pre)
           /\ SubSeq(log[i].res.buf, 1, Len(log[i].pre)) = log[i].pre
           /\ log[i].res.n = Len(log[i].res.buf) - Len(log[i].pre)

\* The width the additional value of num takes.
AddnlWidth(num) ==
    IF LeU64(num, U64Of(23)) THEN 0
    ELSE IF LeU64(num, U8_MAX) THEN 1
    ELSE IF LeU64(num, U16_MAX) THEN 2
    ELSE IF LeU64(num, U32_MAX) THEN 4 ELSE 8

\* C8: encode_addnl(n) writes the 0, 1, 2, 4 or 8 low bytes of n, big-endian,
\* by the range n is in, and decode_addnl on those bytes with the descriptor
\* Info::from(n) returns n.
C8_AddnlRoundTrip ==
    \A i \in Calls :
        log[i].op = "encode_addnl"
        => LET num == log[i].num
               w == AddnlWidth(num)
           IN  /\ log[i].res = EOk(w, log[i].pre \o SubSeq(num, 9 - w, 8))
               /\ (ReadBack(i, "decode_addnl")
                   /\ log[i + 2].info = InfoFromU64(num))
                  => (log[i + 2].res.tag = "Ok" /\ log[i + 2].res.num = num)

\* C9: decode_addnl returns an error and reads nothing for the indefinite
\* descriptor and for each reserved one, so that decoding an unsigned, negated
\* or tag header with such a descriptor fails.
C9_NoAdditionalValue ==
    \A i \in Calls :
        /\ (log[i].op = "decode_addnl"
            /\ log[i].info \in {Indefinite, Reserved28, Reserved29, Reserved30})
           => (log[i].res.tag = "Err" /\ log[i].res.pos = log[i].from)
        /\ (log[i].op = "decode" /\ log[i].res.tag # "Running"
            /\ log[i].from < Len(data)
            /\ data[log[i].from + 1] \div 32 \in {0, 1, 6}
            /\ data[log[i].from + 1] % 32 \in 28..31)
           => log[i].res.tag = "Err"

\* The descriptor a code of the header's low five bits stands for.
CodeInfo(code) ==
    IF code <= 23 THEN Tiny(code)
    ELSE IF code = 24 THEN InfoU8
    ELSE IF code = 25 THEN InfoU16
    ELSE IF code = 26 THEN InfoU32
    ELSE IF code = 27 THEN InfoU64
    ELSE IF code = 28 THEN Reserved28
    ELSE IF code = 29 THEN Reserved29
    ELSE IF code = 30 THEN Reserved30
    ELSE Indefinite

\* C10: for a major type in 0..7 and a descriptor code in 0..31, encode_hdr
\* appends the one byte major * 32 + code, decode_hdr on that byte returns the
\* same major type and descriptor, and decode_hdr takes any byte apart so.
C10_HeaderRoundTrip ==
    \A i \in Calls :
        /\ log[i].op = "encode_hdr"
           => \A code \in 0..31 :
                log[i].info = CodeInfo(code)
                => /\ log[i].res =
                          EOk(1, Append(log[i].pre, log[i].major * 32 + code))
                   /\ ReadBack(i, "decode_hdr")
                      => log[i + 2].res =
                             [tag |-> "Ok", major |-> log[i].major,
                              info |-> log[i].info, pos |-> 1, short |-> FALSE]
        /\ (log[i].op = "decode_hdr" /\ log[i].from < Len(data))
           => LET b == data[log[i].from + 1]
              IN  /\ log[i].res.tag = "Ok"
                  /\ log[i].res.major = b \div 32
                  /\ log[i].res.info = CodeInfo(b % 32)

\* A header with the highest major type and the highest code has gone through
\* encode_hdr and back through decode_hdr.
C10_Witness ==
    /\ Len(log) = 3
    /\ log[1].op = "encode_hdr" /\ log[1].pre = <<>>
    /\ log[1].major = 7 /\ log[1].info = Indefinite
    /\ log[3].op = "decode_hdr" /\ log[3].res.tag = "Ok"

\* C11: converting a negated-unsigned value that stores s to a key gives the
\* signed key -(s + 1) whenever s <= 2^63 - 1 (at 2^63 - 1, i64::MIN), and a
\* conversion failure for every larger s; it never panics or wraps.
C11_ValueToKey ==
    \A i \in Calls :
        (log[i].op = "cbor_to_key" /\ log[i].val.major = 1)
        => IF LeU64(log[i].val.num, I64_MAX)
           THEN log[i].res =
                    [tag |-> "Ok", key |-> KeyN64(TRUE, U64Add1(log[i].val.num))]
           ELSE log[i].res = [tag |-> "Err", kind |-> "FailConvert"]

\* C12: converting a signed key n to a value gives the unsigned value n for
\* n >= 0 and the negated-unsigned value storing -(n + 1), under its minimal
\* descriptor, for n < 0 down to i64::MIN, or a conversion error at that
\* boundary; it never panics or wraps.
C12_KeyToValue ==
    \A i \in Calls :
        (log[i].op = "key_to_cbor" /\ log[i].key.k = "N64")
        => LET n == log[i].key.v
               stored == U64Sub1(n.mag)
           IN  IF ~n.neg
               THEN log[i].res =
                        [tag |-> "Ok", val |-> Major0(InfoFromU64(n.mag), n.mag)]
               ELSE \/ log[i].res =
                           [tag |-> "Ok", val |-> Major1(InfoFromU64(stored), stored)]
                    \/ /\ n.mag = Two63
                       /\ log[i].res.tag = "Err"
                       /\ log[i].res.kind = "FailConvert"

\* C13: after an indefinite map header a Break byte at the value position ends
\* the loop, and decode returns the map of the pairs completed before it; a
\* Break byte at the key position makes decode fail.
C13_MapBreakAtValue ==
    \A i \in Calls :
        /\ Decoded(i, <<191, 23, 255>>)
           => log[i].res = [tag |-> "Ok", val |-> Major5(Indefinite, <<>>),
                            pos |-> 3]
        /\ Decoded(i, <<191, 23, 244, 23, 255>>)
           => log[i].res =
                  [tag |-> "Ok",
                   val |-> Major5(Indefinite,
                                  <<Pair(KeyU64(U64Of(23)), Major7(Tiny(20), True))>>),
                   pos |-> 5]
        /\ Decoded(i, <<191, 255>>) => log[i].res.tag = "Err"
        /\ Decoded(i, <<191, 23, 244, 255>>) => log[i].res.tag = "Err"

MaxItemSrc == 12

NoItem == [ok |-> FALSE, val |-> EmptyList, end |-> 0]
Item(val, end) == [ok |-> TRUE, val |-> val, end |-> end]

\* The bytes the additional value of a descriptor code takes.
CodeWidth(code) ==
    IF code <= 23 THEN 0
    ELSE IF code = 24 THEN 1
    ELSE IF code = 25 THEN 2
    ELSE IF code = 26 THEN 4 ELSE 8

\* The number a header with this code, at index at of src, carries.
CodeArg(src, at, code) ==
    LET w == CodeWidth(code)
    IN  IF code <= 23 THEN U64Of(code)
        ELSE [j \in 1..8 |-> IF j <= 8 - w THEN 0 ELSE src[at + 1 + j - (8 - w)]]

RECURSIVE ItemAt(_, _, _)
RECURSIVE ListAt(_, _, _, _)
RECURSIVE MapAt(_, _, _, _)

\* The n items that follow index at of src, when all of them are there.
ListAt(src, at, n, checks) ==
    IF n = 0 THEN Item(<<>>, at)
    ELSE LET head == ItemAt(src, at, checks)
             rest == ListAt(src, head.end, n - 1, checks)
         IN  IF ~head.ok \/ ~rest.ok THEN NoItem
             ELSE Item(<<head.val>> \o rest.val, rest.end)

\* The n pairs that follow index at of src, when all of them are there and
\* their keys are values a key can be.
MapAt(src, at, n, checks) ==
    IF n = 0 THEN Item(<<>>, at)
    ELSE LET k == ItemAt(src, at, checks)
             v == ItemAt(src, k.end, checks)
             key == CborToKey(k.val, checks)
             rest == MapAt(src, v.end, n - 1, checks)
         IN  IF ~k.ok \/ key.tag # "Ok" \/ ~v.ok \/ ~rest.ok THEN NoItem
             ELSE Item(<<Pair(key.key, v.val)>> \o rest.val, rest.end)

\* The definite-length item whose encoding starts after index at of src, and
\* the index it ends at, when src holds the whole of it.
ItemAt(src, at, checks) ==
    IF at >= Len(src) THEN NoItem
    ELSE
    LET major == src[at + 1] \div 32
        code == src[at + 1] % 32
        info == CodeInfo(code)
        body == at + 1 + CodeWidth(code)
        arg == CodeArg(src, at, code)
        n == U64ToNat(arg)
    IN  IF code > 27 \/ body > Len(src) THEN NoItem
        ELSE IF major = 0 THEN Item(Major0(info, arg), body)
        ELSE IF major = 1 THEN Item(Major1(info, arg), body)
        ELSE IF major = 6 THEN Item(Major6(info, arg), body)
        ELSE IF major = 7
        THEN IF code = 20 THEN Item(Major7(info, True), body)
             ELSE IF code = 21 THEN Item(Major7(info, False), body)
             ELSE IF code = 22 THEN Item(Major7(info, Null), body)
             ELSE IF code = 26
             THEN Item(Major7(info, F32(SubSeq(src, at + 2, body))), body)
             ELSE IF code = 27
             THEN Item(Major7(info, F64(SubSeq(src, at + 2, body))), body)
             ELSE NoItem
        ELSE IF ~FitsNat(arg) \/ body + n > Len(src) THEN NoItem
        ELSE IF major = 2 THEN Item(Major2(info, SubSeq(src, body + 1, body + n)),
                                    body + n)
        ELSE IF major = 3 THEN Item(Major3(info, SubSeq(src, body + 1, body + n)),
                                    body + n)
        ELSE LET items == IF major = 4 THEN ListAt(src, body, n, checks)
                          ELSE MapAt(src, body, n, checks)
             IN  IF ~items.ok THEN NoItem
                 ELSE Item(IF major = 4 THEN Major4(info, items.val)
                           ELSE Major5(info, items.val), items.end)

====
